---- MODULE Spec2Model ----
(***************************************************************************)
(* Model of the firewall rule optimizer: the rule model produced by        *)
(* IptablesParser, FirewallAnalyzer.analyze_configuration and the range    *)
(* predicates it uses, FirewallRecommender.generate_recommendations and    *)
(* FirewallRecommender.generate_optimized_config.                          *)
(*                                                                         *)
(* Optional[str] fields are modelled as sequences of length at most one:   *)
(* None is <<>> and the string v is <<v>>.  An address text is a record    *)
(* [fam, addr, len]: fam 4 or 6 for text that ipaddress.ip_network parses  *)
(* (addr may have host bits set, as strict=False allows), fam 0 for text   *)
(* it rejects with ValueError.  A port text is a record [form, lo, hi]:    *)
(* "single" for "22", "range" for "20:25", "name" for text int() rejects.  *)
(***************************************************************************)
EXTENDS Integers, Sequences, FiniteSets, TLC

VARIABLES
    content,    \* the iptables-save text handed to the parser, a sequence of lines
    heap,       \* the FirewallConfig objects: object name -> config.tables
    analysis,   \* the AnalysisResult of the last analyze_configuration
    plan,       \* the OptimizationPlan
    pc,         \* the position of the caller (FirewallOptimizerCLI)
    query,      \* the arguments of a call of a range predicate
    answer      \* its outcome

vars == <<content, heap, analysis, plan, pc, query, answer>>

(***************************************************************************)
(* Bounds of the model.                                                    *)
(***************************************************************************)
MaxLines == 3
MaxCopies == 7

AddrBits == 3

(***************************************************************************)
(* Values of the rule model.                                               *)
(***************************************************************************)
None == <<>>

Some(v) == <<v>>

Net(a, l) == Some([fam |-> 4, addr |-> a, len |-> l])

Net6(a, l) == Some([fam |-> 6, addr |-> a, len |-> l])

AddrText(id) == Some([fam |-> 0, addr |-> id, len |-> 0])

AnyNet == Net(0, 0)

AnyText == AddrText(0)

Port(p) == Some([form |-> "single", lo |-> p, hi |-> p])

PortRange(a, b) == Some([form |-> "range", lo |-> a, hi |-> b])

PortName(id) == Some([form |-> "name", lo |-> id, hi |-> id])

(***************************************************************************)
(* Lines of an iptables-save text.  A line is kept as the record of its    *)
(* tokens; kind is "table" for "*name", "chain" for ":name POLICY [0:0]"   *)
(* and "rule" for "-A chain ...".  note stands for text of the line that   *)
(* no pattern of the parser extracts (a comment, a log prefix).            *)
(***************************************************************************)
BlankLine ==
    [kind |-> "rule", name |-> "", chain |-> "", p |-> None, s |-> None, d |-> None,
     sport |-> None, dport |-> None, i |-> None, o |-> None, ctstate |-> None,
     j |-> "", note |-> None]

TableLine(t) == [BlankLine EXCEPT !.kind = "table", !.name = t]

ChainLine(c) == [BlankLine EXCEPT !.kind = "chain", !.name = c]

RuleLine(c, target) == [BlankLine EXCEPT !.chain = c, !.j = target]

(***************************************************************************)
(* FirewallRule and FirewallConfig.  config.tables is a dict of dicts of   *)
(* lists; a dict is modelled as the sequence of its entries in insertion   *)
(* order, which is the order Python iterates it in.                        *)
(***************************************************************************)
FirewallRule(table, chain, target, line) ==
    [table |-> table, chain |-> chain, target |-> target,
     protocol |-> None, source_ip |-> None, destination_ip |-> None,
     source_port |-> None, destination_port |-> None,
     interface_in |-> None, interface_out |-> None, state |-> None,
     line_number |-> 0, raw_rule |-> line]

FirewallConfig == <<>>

Keys(dict) == {dict[k].name : k \in DOMAIN dict}

IndexOf(dict, key) == CHOOSE k \in DOMAIN dict : dict[k].name = key

TableEntry(t) == [name |-> t, chains |-> <<>>]

ChainEntry(c) == [name |-> c, rules |-> <<>>]

WithTable(tables, t) ==
    IF t \in Keys(tables) THEN tables ELSE Append(tables, TableEntry(t))

WithChain(tables, t, c) ==
    LET ti == IndexOf(tables, t)
    IN IF c \in Keys(tables[ti].chains) THEN tables
       ELSE [tables EXCEPT ![ti].chains = Append(@, ChainEntry(c))]

AppendRule(tables, t, c, rule) ==
    LET ti == IndexOf(tables, t)
        ci == IndexOf(tables[ti].chains, c)
    IN [tables EXCEPT ![ti].chains[ci].rules = Append(@, rule)]

(***************************************************************************)
(* IptablesParser                                                          *)
(***************************************************************************)
_parse_rule_parameters(line, table, chain, line_number) ==
    [FirewallRule(table, chain, line.j, line) EXCEPT
        !.protocol = line.p, !.source_ip = line.s, !.destination_ip = line.d,
        !.source_port = line.sport, !.destination_port = line.dport,
        !.interface_in = line.i, !.interface_out = line.o,
        !.state = line.ctstate, !.line_number = line_number]

\* One iteration of the loop of parse_iptables_save.  A chain definition met
\* while the current table has no entry raises KeyError (failed).
ParseLine(st, line) ==
    LET n == st.line_number + 1
    IN IF st.failed THEN st
       ELSE IF line.kind = "table"
       THEN [st EXCEPT !.line_number = n, !.current_table = line.name,
                       !.tables = WithTable(@, line.name)]
       ELSE IF line.kind = "chain"
       THEN IF st.current_table \notin Keys(st.tables)
            THEN [st EXCEPT !.line_number = n, !.failed = TRUE]
            ELSE [st EXCEPT !.line_number = n,
                            !.tables = WithChain(@, st.current_table, line.name)]
       ELSE [st EXCEPT !.line_number = n,
                       !.tables = AppendRule(
                           WithChain(WithTable(@, st.current_table),
                                     st.current_table, line.chain),
                           st.current_table, line.chain,
                           _parse_rule_parameters(line, st.current_table,
                                                  line.chain, n))]

RECURSIVE ParseLines(_, _, _)
ParseLines(st, lines, k) ==
    IF k > Len(lines) THEN st
    ELSE ParseLines(ParseLine(st, lines[k]), lines, k + 1)

parse_iptables_save(text) ==
    ParseLines([tables |-> FirewallConfig, current_table |-> "filter",
                line_number |-> 0, failed |-> FALSE], text, 1)

(***************************************************************************)
(* Range predicates of FirewallAnalyzer.  ipaddress.ip_network(text,       *)
(* strict=False) raises ValueError on text it cannot parse (Parsable is    *)
(* false) and otherwise clears the host bits.  A predicate that can let an *)
(* exception escape is modelled by two operators: X_raises tells whether   *)
(* the call raises, X gives the value it returns when it does not.         *)
(***************************************************************************)
Pow2(n) == 2 ^ n

Parsable(text) == text.fam # 0 /\ text.len <= AddrBits

Truncate(base, len) == (base \div Pow2(AddrBits - len)) * Pow2(AddrBits - len)

ip_network(text) ==
    [fam |-> text.fam, len |-> text.len, base |-> Truncate(text.addr, text.len)]

\* net1.overlaps(net2): networks of different versions never overlap.
overlaps(net1, net2) ==
    /\ net1.fam = net2.fam
    /\ LET short == IF net1.len <= net2.len THEN net1.len ELSE net2.len
       IN Truncate(net1.base, short) = Truncate(net2.base, short)

\* a.supernet_of(b) raises TypeError when the versions differ.
supernet_of_raises(a, b) == a.fam # b.fam

supernet_of(a, b) ==
    a.fam = b.fam /\ a.len <= b.len /\ Truncate(b.base, a.len) = a.base

_ip_ranges_overlap(ip1, ip2) ==
    IF ~Parsable(ip1) \/ ~Parsable(ip2) THEN TRUE
    ELSE overlaps(ip_network(ip1), ip_network(ip2))

\* general and specific are Optional[str].
_ip_contains_raises(general, specific) ==
    /\ general # None
    /\ specific # None
    /\ Parsable(general[1])
    /\ Parsable(specific[1])
    /\ supernet_of_raises(ip_network(general[1]), ip_network(specific[1]))

\* _ip_contains with the two tests for None in the other order.
SpecificNoneFirst(general, specific) ==
    IF specific = None THEN FALSE
    ELSE IF general = None THEN TRUE
    ELSE IF ~Parsable(general[1]) \/ ~Parsable(specific[1]) THEN general = specific
    ELSE \/ supernet_of(ip_network(general[1]), ip_network(specific[1]))
         \/ ip_network(general[1]) = ip_network(specific[1])

_ip_contains(general, specific) ==
    IF general = None THEN TRUE
    ELSE IF specific = None THEN FALSE
    ELSE IF ~Parsable(general[1]) \/ ~Parsable(specific[1]) THEN general = specific
    ELSE \/ supernet_of(ip_network(general[1]), ip_network(specific[1]))
         \/ ip_network(general[1]) = ip_network(specific[1])

\* _port_contains with the start of the interval compared strictly.
StrictStartContains(general, specific) ==
    IF general = None THEN TRUE
    ELSE IF specific = None THEN FALSE
    ELSE IF general[1].form = "name" \/ specific[1].form = "name"
    THEN general = specific
    ELSE general[1].lo < specific[1].lo /\ specific[1].hi <= general[1].hi

_port_contains(general, specific) ==
    IF general = None THEN TRUE
    ELSE IF specific = None THEN FALSE
    ELSE IF general[1].form = "name" \/ specific[1].form = "name"
    THEN general = specific
    ELSE general[1].lo <= specific[1].lo /\ specific[1].hi <= general[1].hi

(***************************************************************************)
(* FirewallAnalyzer: the six checks run on one chain's rule list.  An      *)
(* issue keeps issue_type, severity, description (the part of the text     *)
(* that later code tests) and affected_rules.                              *)
(***************************************************************************)
RECURSIVE Concat(_)
Concat(seqs) == IF seqs = <<>> THEN <<>> ELSE Head(seqs) \o Concat(Tail(seqs))

Terminal == {"ACCEPT", "DROP", "REJECT"}

RuleIssue(issue_type, severity, description, affected_rules) ==
    [issue_type |-> issue_type, severity |-> severity,
     description |-> description, affected_rules |-> affected_rules]

\* "|".join of the ten components; `x or ""` maps None to the empty string,
\* a text that neither ip_network nor int accepts.
EmptyStr == Some("")

EmptyAddr == Some([fam |-> 0, addr |-> -1, len |-> 0])

EmptyPort == Some([form |-> "name", lo |-> -1, hi |-> -1])

OrEmpty(v, empty) == IF v = None THEN empty ELSE v

_create_rule_signature(rule) ==
    <<rule.chain, rule.target, OrEmpty(rule.protocol, EmptyStr),
      OrEmpty(rule.source_ip, EmptyAddr), OrEmpty(rule.destination_ip, EmptyAddr),
      OrEmpty(rule.source_port, EmptyPort), OrEmpty(rule.destination_port, EmptyPort),
      OrEmpty(rule.interface_in, EmptyStr), OrEmpty(rule.interface_out, EmptyStr),
      OrEmpty(rule.state, EmptyStr)>>

\* A plausible slip: the entry is overwritten by every rule met.
SeenOverwrite(seen, signature, rule) ==
    (signature :> rule) @@ seen

\* The dict seen_rules after the first k rules: signature -> rule.
SeenInsert(seen, signature, rule) ==
    IF signature \in DOMAIN seen THEN seen ELSE (signature :> rule) @@ seen

RECURSIVE SeenAfter(_, _)
SeenAfter(rules, k) ==
    IF k = 0 THEN <<>>
    ELSE SeenInsert(SeenAfter(rules, k - 1), _create_rule_signature(rules[k]), rules[k])

_check_redundant_rules(rules) ==
    Concat([k \in 1..Len(rules) |->
        LET seen_rules == SeenAfter(rules, k - 1)
            signature == _create_rule_signature(rules[k])
        IN IF signature \in DOMAIN seen_rules
           THEN <<RuleIssue("redundant", "medium", "Redundant rule found",
                            <<seen_rules[signature], rules[k]>>)>>
           ELSE <<>>])

\* One criterion of _rules_match_same_traffic: FALSE when it returns False.
CriterionOverlaps(val1, val2, is_ip) ==
    IF val1 = None \/ val2 = None THEN TRUE
    ELSE IF val1 # val2
    THEN IF is_ip THEN _ip_ranges_overlap(val1[1], val2[1]) ELSE FALSE
    ELSE TRUE

_rules_match_same_traffic(rule1, rule2) ==
    /\ CriterionOverlaps(rule1.protocol, rule2.protocol, FALSE)
    /\ CriterionOverlaps(rule1.source_ip, rule2.source_ip, TRUE)
    /\ CriterionOverlaps(rule1.destination_ip, rule2.destination_ip, TRUE)
    /\ CriterionOverlaps(rule1.source_port, rule2.source_port, FALSE)
    /\ CriterionOverlaps(rule1.destination_port, rule2.destination_port, FALSE)
    /\ CriterionOverlaps(rule1.interface_in, rule2.interface_in, FALSE)
    /\ CriterionOverlaps(rule1.interface_out, rule2.interface_out, FALSE)

\* _rules_conflict without the test of the second rule's target.
FirstTerminalConflict(rule1, rule2) ==
    IF rule1.target = rule2.target THEN FALSE
    ELSE /\ _rules_match_same_traffic(rule1, rule2)
         /\ rule1.target # rule2.target
         /\ rule1.target \in Terminal

_rules_conflict(rule1, rule2) ==
    IF rule1.target = rule2.target THEN FALSE
    ELSE /\ _rules_match_same_traffic(rule1, rule2)
         /\ rule1.target # rule2.target
         /\ rule1.target \in Terminal
         /\ rule2.target \in Terminal

ConflictSeverity(rule1, rule2) ==
    IF rule1.target = "DROP" \/ rule2.target = "DROP" THEN "high" ELSE "medium"

_check_conflicting_rules(rules) ==
    Concat([i \in 1..Len(rules) |->
        Concat([j \in 1..Len(rules) |->
            IF j > i /\ _rules_conflict(rules[i], rules[j])
            THEN <<RuleIssue("conflicting", ConflictSeverity(rules[i], rules[j]),
                             "Conflicting rules", <<rules[i], rules[j]>>)>>
            ELSE <<>>])])

Restrictions(rule) ==
    Cardinality({a \in {"protocol", "source_ip", "destination_ip",
                        "source_port", "destination_port"} : rule[a] # None})

\* A comparison that also holds for equally restricted rules.
NotMoreSpecific(rule1, rule2) == Restrictions(rule1) <= Restrictions(rule2)

_is_more_general(rule1, rule2) == Restrictions(rule1) < Restrictions(rule2)

_check_rule_ordering(rules) ==
    Concat([i \in 1..Len(rules) |->
        Concat([j \in 1..Len(rules) |->
            IF j < i /\ _is_more_general(rules[j], rules[i])
                     /\ rules[i].target # rules[j].target
            THEN <<RuleIssue("inefficient_order", "medium", "Specific rule after general",
                             <<rules[j], rules[i]>>)>>
            ELSE <<>>])])

\* _rule_covers_completely checks its criteria in order and returns at the
\* first that fails, so a later criterion raises only if the earlier ones held.
CoversEq(g, s) == g = None \/ g = s

CoversIp(g, s) == g = None \/ _ip_contains(g, s)

CoversPort(g, s) == g = None \/ _port_contains(g, s)

_rule_covers_completely_raises(general_rule, specific_rule) ==
    /\ CoversEq(general_rule.protocol, specific_rule.protocol)
    /\ \/ _ip_contains_raises(general_rule.source_ip, specific_rule.source_ip)
       \/ /\ CoversIp(general_rule.source_ip, specific_rule.source_ip)
          /\ _ip_contains_raises(general_rule.destination_ip,
                                 specific_rule.destination_ip)

_rule_covers_completely(general_rule, specific_rule) ==
    /\ CoversEq(general_rule.protocol, specific_rule.protocol)
    /\ CoversIp(general_rule.source_ip, specific_rule.source_ip)
    /\ CoversIp(general_rule.destination_ip, specific_rule.destination_ip)
    /\ CoversPort(general_rule.source_port, specific_rule.source_port)
    /\ CoversPort(general_rule.destination_port, specific_rule.destination_port)
    /\ CoversEq(general_rule.interface_in, specific_rule.interface_in)
    /\ CoversEq(general_rule.interface_out, specific_rule.interface_out)

\* The condition of the scan without the test of the earlier rule's target.
CoveredBy(earlier_rule, rule) ==
    /\ ~_rule_covers_completely_raises(earlier_rule, rule)
    /\ _rule_covers_completely(earlier_rule, rule)

\* The condition of the if in the scan of _check_unreachable_rules.
UnreachableBy(earlier_rule, rule) ==
    /\ ~_rule_covers_completely_raises(earlier_rule, rule)
    /\ _rule_covers_completely(earlier_rule, rule)
    /\ earlier_rule.target \in Terminal

\* A scan that runs from the rule backwards and breaks at the first hit.
BreakAtNearest(rules, i) ==
    LET hits == {j \in 1..(i - 1) : UnreachableBy(rules[j], rules[i])}
    IN IF hits = {} THEN 0 ELSE CHOOSE j \in hits : \A h \in hits : j >= h

\* The scan for j in range(i): the j at which it breaks, 0 if it never does.
BreakAt(rules, i) ==
    LET hits == {j \in 1..(i - 1) : UnreachableBy(rules[j], rules[i])}
    IN IF hits = {} THEN 0 ELSE CHOOSE j \in hits : \A h \in hits : j <= h

_check_unreachable_rules(rules) ==
    Concat([i \in 1..Len(rules) |->
        IF BreakAt(rules, i) # 0
        THEN <<RuleIssue("unreachable", "medium", "Rule is unreachable",
                         <<rules[BreakAt(rules, i)], rules[i]>>)>>
        ELSE <<>>])

_check_unreachable_rules_raises(rules) ==
    \E i \in 1..Len(rules) : \E j \in 1..(i - 1) :
        /\ BreakAt(rules, i) = 0 \/ j < BreakAt(rules, i)
        /\ _rule_covers_completely_raises(rules[j], rules[i])

\* "LOG" in rule.raw_rule
ContainsLOG(line) == line.j = "LOG" \/ line.note = Some("LOG")

\* The administrative ports without Telnet.
AdminPortsNoTelnet == {Port(22), Port(3389)}

AdminPorts == {Port(22), Port(3389), Port(23)}

OpenSources == {None, AnyNet, AnyText}

_check_security_issues(rules) ==
    Concat([k \in 1..Len(rules) |->
        (IF /\ rules[k].target = "ACCEPT"
            /\ rules[k].source_ip \in OpenSources
            /\ rules[k].destination_port \in AdminPorts
         THEN <<RuleIssue("security_risk", "high", "Administrative port", <<rules[k]>>)>>
         ELSE <<>>)
        \o
        (IF rules[k].target = "DROP" /\ ~ContainsLOG(rules[k].raw_rule)
         THEN <<RuleIssue("missing_log", "low", "DROP rule without logging", <<rules[k]>>)>>
         ELSE <<>>)])

\* The check with rules bound to an interface left unflagged.
PermissiveOnAnyInterface(rules) ==
    Concat([k \in 1..Len(rules) |->
        IF /\ rules[k].target = "ACCEPT"
           /\ rules[k].source_ip = None
           /\ rules[k].destination_ip = None
           /\ rules[k].destination_port = None
           /\ rules[k].protocol = None
           /\ rules[k].interface_in = None
        THEN <<RuleIssue("overly_permissive", "high", "Rule accepts all traffic",
                         <<rules[k]>>)>>
        ELSE <<>>])

_check_permissive_rules(rules) ==
    Concat([k \in 1..Len(rules) |->
        IF /\ rules[k].target = "ACCEPT"
           /\ rules[k].source_ip = None
           /\ rules[k].destination_ip = None
           /\ rules[k].destination_port = None
           /\ rules[k].protocol = None
        THEN <<RuleIssue("overly_permissive", "high", "Rule accepts all traffic",
                         <<rules[k]>>)>>
        ELSE <<>>])

\* The body of the loop over chains in analyze_configuration (empty chains
\* are skipped; every check of an empty list reports nothing).
AnalyzeChain(rules) ==
    _check_redundant_rules(rules) \o _check_conflicting_rules(rules)
    \o _check_rule_ordering(rules) \o _check_unreachable_rules(rules)
    \o _check_security_issues(rules) \o _check_permissive_rules(rules)

\* Every chain's rule list, tables and chains in iteration order.
AllChains(tables) ==
    Concat([t \in DOMAIN tables |->
        [c \in DOMAIN tables[t].chains |-> tables[t].chains[c].rules]])

AllRules(tables) == Concat(AllChains(tables))

_calculate_statistics(tables) == [total_rules |-> Len(AllRules(tables))]

\* The score left as computed.
NoClamp(score) == score

Clamp(score) == IF score < 0 THEN 0 ELSE IF score > 100 THEN 100 ELSE score

\* The efficiency penalties with the unreachable branch left out.
PenaltyNoUnreachable(issue) ==
    IF issue.issue_type = "redundant" THEN 5
    ELSE IF issue.issue_type = "inefficient_order" THEN 3
    ELSE 0

\* The efficiency penalties with one for conflicts as well.
PenaltyConflictToo(issue) ==
    IF issue.issue_type = "redundant" THEN 5
    ELSE IF issue.issue_type = "inefficient_order" THEN 3
    ELSE IF issue.issue_type = "unreachable" THEN 4
    ELSE IF issue.issue_type = "conflicting" THEN 3
    ELSE 0

EfficiencyPenalty(issue) ==
    IF issue.issue_type = "redundant" THEN 5
    ELSE IF issue.issue_type = "inefficient_order" THEN 3
    ELSE IF issue.issue_type = "unreachable" THEN 4
    ELSE 0

\* The security penalties with the critical and high ones exchanged.
PenaltyHighFirst(issue) ==
    IF issue.issue_type = "security_risk"
    THEN IF issue.severity = "critical" THEN 15
         ELSE IF issue.severity = "high" THEN 20
         ELSE IF issue.severity = "medium" THEN 10
         ELSE 0
    ELSE IF issue.issue_type = "overly_permissive" THEN 8
    ELSE 0

SecurityPenalty(issue) ==
    IF issue.issue_type = "security_risk"
    THEN IF issue.severity = "critical" THEN 20
         ELSE IF issue.severity = "high" THEN 15
         ELSE IF issue.severity = "medium" THEN 10
         ELSE 0
    ELSE IF issue.issue_type = "overly_permissive" THEN 8
    ELSE 0

RECURSIVE SumOver(_, _)
SumOver(issues, k) ==
    IF k = 0 THEN 0 ELSE SumOver(issues, k - 1) + issues[k]

_calculate_efficiency_score(issues) ==
    Clamp(100 - SumOver([k \in DOMAIN issues |-> EfficiencyPenalty(issues[k])],
                        Len(issues)))

_calculate_security_score(issues) ==
    Clamp(100 - SumOver([k \in DOMAIN issues |-> SecurityPenalty(issues[k])],
                        Len(issues)))

DetectIssues(tables) ==
    LET chains == AllChains(tables)
    IN Concat([c \in DOMAIN chains |-> AnalyzeChain(chains[c])])

analyze_configuration_raises(tables) ==
    LET chains == AllChains(tables)
    IN \E c \in DOMAIN chains : _check_unreachable_rules_raises(chains[c])

analyze_configuration(tables) ==
    LET issues == DetectIssues(tables)
    IN [issues |-> issues,
        statistics |-> _calculate_statistics(tables),
        rule_efficiency_score |-> _calculate_efficiency_score(issues),
        security_score |-> _calculate_security_score(issues)]

\* AnalysisResult(): the value of a result before any analysis.
AnalysisResult ==
    [issues |-> <<>>, statistics |-> [total_rules |-> 0],
     rule_efficiency_score |-> 0, security_score |-> 0]

(***************************************************************************)
(* FirewallRecommender.generate_recommendations.  A recommendation keeps   *)
(* rec_type, priority (the value of RecommendationPriority),               *)
(* affected_rules and new_rules.                                           *)
(***************************************************************************)
LOW == 1

MEDIUM == 2

HIGH == 3

CRITICAL == 4

Recommendation(rec_type, priority, title, affected_rules, new_rules) ==
    [rec_type |-> rec_type, priority |-> priority, title |-> title,
     affected_rules |-> affected_rules, new_rules |-> new_rules]

get_issues_by_type(issues, issue_type) ==
    LET OfType(issue) == issue.issue_type = issue_type
    IN SelectSeq(issues, OfType)

_handle_redundant_rules(issues) ==
    LET redundant_issues == get_issues_by_type(issues, "redundant")
    IN Concat([k \in DOMAIN redundant_issues |->
        LET affected == redundant_issues[k].affected_rules
        IN IF Len(affected) >= 2
           THEN [d \in 1..(Len(affected) - 1) |->
                    Recommendation("delete_rule", MEDIUM, "Remove redundant rule", <<affected[d + 1]>>, <<>>)]
           ELSE <<>>])

_handle_conflicting_rules(issues) ==
    LET conflicting_issues == get_issues_by_type(issues, "conflicting")
    IN Concat([k \in DOMAIN conflicting_issues |->
        LET affected == conflicting_issues[k].affected_rules
        IN IF Len(affected) >= 2
           THEN <<Recommendation("modify_rule",
                      IF affected[1].target = "DROP" \/ affected[2].target = "DROP"
                      THEN HIGH ELSE MEDIUM,
                      "Resolve conflicting rules", affected, <<>>)>>
           ELSE <<>>])

_handle_ordering_issues(issues) ==
    LET ordering_issues == get_issues_by_type(issues, "inefficient_order")
    IN Concat([k \in DOMAIN ordering_issues |->
        IF Len(ordering_issues[k].affected_rules) >= 2
        THEN <<Recommendation("reorder_rules", MEDIUM, "Reorder rules for better performance",
                              ordering_issues[k].affected_rules, <<>>)>>
        ELSE <<>>])

\* A handler that names every rule of the issue, the covering rule included.
DeleteAllAffected(issues) ==
    LET unreachable_issues == get_issues_by_type(issues, "unreachable")
    IN [k \in DOMAIN unreachable_issues |->
        Recommendation("delete_rule", MEDIUM, "Remove unreachable rule",
                       unreachable_issues[k].affected_rules, <<>>)]

_handle_unreachable_rules(issues) ==
    LET unreachable_issues == get_issues_by_type(issues, "unreachable")
    IN [k \in DOMAIN unreachable_issues |->
        LET affected == unreachable_issues[k].affected_rules
        IN Recommendation("delete_rule", MEDIUM, "Remove unreachable rule", <<affected[Len(affected)]>>, <<>>)]

_handle_security_issues(issues) ==
    LET security_issues == get_issues_by_type(issues, "security_risk")
        logging_issues == get_issues_by_type(issues, "missing_log")
    IN Concat([k \in DOMAIN security_issues |->
            IF security_issues[k].description = "Administrative port"
            THEN <<Recommendation("restrict_source", HIGH, "Restrict access to administrative port",
                                  <<security_issues[k].affected_rules[1]>>, <<>>)>>
            ELSE <<>>])
       \o [k \in DOMAIN logging_issues |->
            Recommendation("add_logging", LOW, "Add logging to DROP rule",
                           <<logging_issues[k].affected_rules[1]>>, <<>>)]

_handle_permissive_rules(issues) ==
    LET permissive_issues == get_issues_by_type(issues, "overly_permissive")
    IN [k \in DOMAIN permissive_issues |->
        Recommendation("modify_rule", HIGH, "Add restrictions to overly permissive rule",
                       <<permissive_issues[k].affected_rules[1]>>, <<>>)]

\* The key of pattern_groups.
Pattern(rule) ==
    <<rule.protocol, rule.target, rule.source_ip, rule.interface_in, rule.interface_out>>

\* pattern_groups keeps its keys in the order they were first met; the group
\* of a key is emitted at the position of the first rule that has it.
_find_mergeable_rules(rules) ==
    LET IsTerminal(rule) == rule.target \in Terminal
        candidates == SelectSeq(rules, IsTerminal)
        GroupOf(k) ==
            LET Same(rule) == Pattern(rule) = Pattern(candidates[k])
            IN SelectSeq(candidates, Same)
        Ports(group) ==
            {group[g].destination_port : g \in DOMAIN group} \ {None}
    IN Concat([k \in DOMAIN candidates |->
        IF /\ \A h \in 1..(k - 1) : Pattern(candidates[h]) # Pattern(candidates[k])
           /\ Len(GroupOf(k)) > 1
           /\ Cardinality(Ports(GroupOf(k))) = Len(GroupOf(k))
           /\ Cardinality(Ports(GroupOf(k))) > 1
        THEN <<GroupOf(k)>>
        ELSE <<>>])

\* The condition under which _check_default_policies proposes a rule.
LacksDefaultDrop(last_rule) ==
    \/ last_rule.target # "DROP"
    \/ last_rule.protocol # None
    \/ last_rule.source_ip # None
    \/ last_rule.destination_ip # None

DefaultDropLine(chain_name) == RuleLine(chain_name, "DROP")

StandardChains == <<"INPUT", "FORWARD", "OUTPUT">>

_check_default_policies(tables) ==
    Concat([t \in DOMAIN tables |->
        IF tables[t].name = "filter"
        THEN Concat([n \in DOMAIN StandardChains |->
                LET chain_name == StandardChains[n]
                    chains == tables[t].chains
                IN IF chain_name \in Keys(chains)
                   THEN LET rules == chains[IndexOf(chains, chain_name)].rules
                        IN IF rules # <<>> /\ LacksDefaultDrop(rules[Len(rules)])
                           THEN <<Recommendation("add_rule", MEDIUM, "Add explicit default DROP policy", <<>>,
                                    <<FirewallRule(tables[t].name, chain_name, "DROP",
                                                   DefaultDropLine(chain_name))>>)>>
                           ELSE <<>>
                   ELSE <<>>])
        ELSE <<>>])

_add_general_optimizations(tables) ==
    LET mergeable_groups == _find_mergeable_rules(AllRules(tables))
    IN Concat([g \in DOMAIN mergeable_groups |->
            IF Len(mergeable_groups[g]) > 1
            THEN <<Recommendation("merge_rules", LOW, "Consider merging similar rules", mergeable_groups[g], <<>>)>>
            ELSE <<>>])
       \o _check_default_policies(tables)

\* Percentages are kept as exact fractions <<numerator, denominator>>.
\* The savings with only the restrict-source recommendations counted as
\* security recommendations.
SavingsRestrictOnly(recommendations, result) ==
    LET IsDelete(rec) == rec.rec_type = "delete_rule"
        IsSecurity(rec) == rec.rec_type = "restrict_source"
        deletes == SelectSeq(recommendations, IsDelete)
        rules_reduced ==
            SumOver([k \in DOMAIN deletes |-> Len(deletes[k].affected_rules)],
                    Len(deletes))
        total_rules == result.statistics.total_rules
        security_recs == Len(SelectSeq(recommendations, IsSecurity))
        security_issues == Len(get_issues_by_type(result.issues, "security_risk"))
    IN [rules_reduced |-> rules_reduced,
        performance_improvement |->
            IF total_rules > 0 THEN <<rules_reduced * 100, total_rules>> ELSE <<0, 1>>,
        security_improvement |->
            IF security_issues > 0 THEN <<security_recs * 100, security_issues>>
            ELSE <<0, 1>>]

_calculate_estimated_savings(recommendations, result) ==
    LET IsDelete(rec) == rec.rec_type = "delete_rule"
        IsSecurity(rec) == rec.rec_type \in {"restrict_source", "add_logging"}
        deletes == SelectSeq(recommendations, IsDelete)
        rules_reduced ==
            SumOver([k \in DOMAIN deletes |-> Len(deletes[k].affected_rules)],
                    Len(deletes))
        total_rules == result.statistics.total_rules
        security_recs == Len(SelectSeq(recommendations, IsSecurity))
        security_issues == Len(get_issues_by_type(result.issues, "security_risk"))
    IN [rules_reduced |-> rules_reduced,
        performance_improvement |->
            IF total_rules > 0 THEN <<rules_reduced * 100, total_rules>> ELSE <<0, 1>>,
        security_improvement |->
            IF security_issues > 0 THEN <<security_recs * 100, security_issues>>
            ELSE <<0, 1>>]

\* list.sort / sorted with key priority.value, reverse=True: a stable sort.
WithPriority(recommendations, priority) ==
    LET Has(rec) == rec.priority = priority
    IN SelectSeq(recommendations, Has)

\* The recommendations left in the order they were added in.
Unsorted(recommendations) == recommendations

SortByPriority(recommendations) ==
    WithPriority(recommendations, CRITICAL) \o WithPriority(recommendations, HIGH)
    \o WithPriority(recommendations, MEDIUM) \o WithPriority(recommendations, LOW)

\* OptimizationPlan(): the value of a plan before any recommendation is added.
OptimizationPlan ==
    [recommendations |-> <<>>,
     estimated_savings |-> [rules_reduced |-> 0,
                            performance_improvement |-> <<0, 1>>,
                            security_improvement |-> <<0, 1>>]]

generate_recommendations(tables, result) ==
    LET recommendations ==
            _handle_redundant_rules(result.issues)
            \o _handle_conflicting_rules(result.issues)
            \o _handle_ordering_issues(result.issues)
            \o _handle_unreachable_rules(result.issues)
            \o _handle_security_issues(result.issues)
            \o _handle_permissive_rules(result.issues)
            \o _add_general_optimizations(tables)
    IN [recommendations |-> SortByPriority(recommendations),
        estimated_savings |-> _calculate_estimated_savings(recommendations, result)]

(***************************************************************************)
(* FirewallRecommender.generate_optimized_config.  FirewallRule is a       *)
(* dataclass: `rule in rules` and rules.remove(rule) compare all fields.   *)
(***************************************************************************)
\* A plausible slip: rules compared by their signature.
SameSignature(a, b) == _create_rule_signature(a) = _create_rule_signature(b)

\* FirewallRule.__eq__, generated by @dataclass: all fields are compared.
SameRule(a, b) == a = b

Contains(rules, rule) == \E k \in DOMAIN rules : SameRule(rules[k], rule)

\* rules.remove(rule): drops the first element equal to rule.
Remove(rules, rule) ==
    LET first == CHOOSE k \in DOMAIN rules :
                    /\ SameRule(rules[k], rule)
                    /\ \A h \in 1..(k - 1) : ~SameRule(rules[h], rule)
    IN SubSeq(rules, 1, first - 1) \o SubSeq(rules, first + 1, Len(rules))

\* The loop over one table's chains: it stops at the first chain holding rule.
RemoveFromChains(chains, rule) ==
    LET holding == {c \in DOMAIN chains : Contains(chains[c].rules, rule)}
    IN IF holding = {} THEN chains
       ELSE LET c == CHOOSE c \in holding : \A h \in holding : c <= h
            IN [chains EXCEPT ![c].rules = Remove(@, rule)]

\* The loop over config.tables.items(), from table t on.
RECURSIVE RemoveFromTables(_, _, _)
RemoveFromTables(tables, rule, t) ==
    IF t > Len(tables) THEN tables
    ELSE RemoveFromTables([tables EXCEPT ![t].chains = RemoveFromChains(@, rule)],
                          rule, t + 1)

RemoveRule(tables, rule) == RemoveFromTables(tables, rule, 1)

RECURSIVE RemoveRules(_, _, _)
RemoveRules(tables, affected_rules, k) ==
    IF k > Len(affected_rules) THEN tables
    ELSE RemoveRules(RemoveRule(tables, affected_rules[k]), affected_rules, k + 1)

_apply_delete_recommendation(tables, rec) == RemoveRules(tables, rec.affected_rules, 1)

\* A plausible slip: the new rule is inserted at the head of its chain.
InsertRule(tables, new_rule) ==
    LET with == WithChain(WithTable(tables, new_rule.table),
                          new_rule.table, new_rule.chain)
        ti == IndexOf(with, new_rule.table)
        ci == IndexOf(with[ti].chains, new_rule.chain)
    IN [with EXCEPT ![ti].chains[ci].rules = <<new_rule>> \o @]

AddRule(tables, new_rule) ==
    AppendRule(WithChain(WithTable(tables, new_rule.table),
                         new_rule.table, new_rule.chain),
               new_rule.table, new_rule.chain, new_rule)

RECURSIVE AddRules(_, _, _)
AddRules(tables, new_rules, k) ==
    IF k > Len(new_rules) THEN tables
    ELSE AddRules(AddRule(tables, new_rules[k]), new_rules, k + 1)

_apply_add_recommendation(tables, rec) == AddRules(tables, rec.new_rules, 1)

\* An application that acts on the rules of a recommendation of any type.
ApplyAnyType(tables, rec) ==
    _apply_add_recommendation(_apply_delete_recommendation(tables, rec), rec)

ApplyOne(tables, rec) ==
    IF rec.rec_type = "delete_rule" THEN _apply_delete_recommendation(tables, rec)
    ELSE IF rec.rec_type = "add_rule" THEN _apply_add_recommendation(tables, rec)
    ELSE tables

RECURSIVE ApplyAll(_, _, _)
ApplyAll(tables, recs, k) ==
    IF k > Len(recs) THEN tables
    ELSE ApplyAll(ApplyOne(tables, recs[k]), recs, k + 1)

\* A plausible slip: no copy is taken and the applier writes to its argument.
NoCopy(object) == object

\* copy.deepcopy(original_config) builds a new object; the name of the object
\* the applier then writes to.
deepcopy(object) == "optimized_config"

\* The body of generate_optimized_config: the heap after the call.
generate_optimized_config(objects, original_config, recommendations) ==
    LET optimized_config == deepcopy(original_config)
        sorted_recs == SortByPriority(recommendations)
    IN [objects EXCEPT
           ![optimized_config] = ApplyAll(objects[original_config], sorted_recs, 1)]

(***************************************************************************)
(* The texts the parser is given.                                          *)
(***************************************************************************)
Ssh == [RuleLine("INPUT", "ACCEPT") EXCEPT !.p = Some("tcp"), !.dport = Port(22)]

SshEstablished == [Ssh EXCEPT !.ctstate = Some("ESTABLISHED")]

SshLog == [Ssh EXCEPT !.j = "LOG"]

DropAll == RuleLine("INPUT", "DROP")

DropEth0 == [DropAll EXCEPT !.i = Some("eth0")]

AcceptOut == RuleLine("OUTPUT", "ACCEPT")

Lines ==
    {Ssh, SshEstablished, SshLog, DropAll, DropEth0, AcceptOut,
     TableLine("filter"), TableLine("nat"), ChainLine("FORWARD")}

Texts(lines) == UNION {[1..n -> lines] : n \in 0..MaxLines}

(***************************************************************************)
(* The caller: parse, analyze, recommend, optionally add a recommendation  *)
(* of its own to the plan, apply, and apply the deletions once more.       *)
(***************************************************************************)
NoQuery == <<>>

InitWith(texts) ==
    /\ content \in texts
    /\ heap = [original_config |-> FirewallConfig, optimized_config |-> FirewallConfig]
    /\ analysis = AnalysisResult
    /\ plan = OptimizationPlan
    /\ pc = "start"
    /\ query = NoQuery
    /\ answer = NoQuery

Init == InitWith(Texts(Lines))

Parse ==
    /\ pc = "start"
    /\ LET st == parse_iptables_save(content)
       IN IF st.failed
          THEN pc' = "parse_error" /\ UNCHANGED heap
          ELSE /\ pc' = "parsed"
               /\ heap' = [heap EXCEPT !.original_config = st.tables]
    /\ UNCHANGED <<content, analysis, plan, query, answer>>

Analyze ==
    /\ pc = "parsed"
    /\ IF analyze_configuration_raises(heap.original_config)
       THEN pc' = "analysis_error" /\ UNCHANGED analysis
       ELSE /\ pc' = "analyzed"
            /\ analysis' = analyze_configuration(heap.original_config)
    /\ UNCHANGED <<content, heap, plan, query, answer>>

Recommend ==
    /\ pc = "analyzed"
    /\ plan' = generate_recommendations(heap.original_config, analysis)
    /\ pc' = "recommended"
    /\ UNCHANGED <<content, heap, analysis, query, answer>>

\* The recommendations a caller adds: a rule for a chain of its choice, or the
\* deletion of the first rule of the policy.
CallerRecommendations(tables) ==
    {Recommendation("add_rule", MEDIUM, "Caller", <<>>,
                    <<FirewallRule(t, "FORWARD", "DROP", DefaultDropLine("FORWARD"))>>)
        : t \in {"filter", "mangle"}}
    \cup {Recommendation("delete_rule", MEDIUM, "Caller", <<AllRules(tables)[1]>>, <<>>)
        : x \in IF AllRules(tables) = <<>> THEN {} ELSE {1}}

\* OptimizationPlan.add_recommendation
add_recommendation(rec) ==
    /\ pc = "recommended"
    /\ plan' = [plan EXCEPT !.recommendations = Append(@, rec)]
    /\ pc' = "edited"
    /\ UNCHANGED <<content, heap, analysis, query, answer>>

Apply ==
    /\ pc \in {"recommended", "edited"}
    /\ heap' = generate_optimized_config(heap, "original_config", plan.recommendations)
    /\ pc' = "applied"
    /\ UNCHANGED <<content, analysis, plan, query, answer>>

\* The delete recommendations of the plan applied once more, to the policy
\* that generate_optimized_config returned.
ReapplyDeletes ==
    /\ pc = "applied"
    /\ LET IsDelete(rec) == rec.rec_type = "delete_rule"
           deletes == SelectSeq(SortByPriority(plan.recommendations), IsDelete)
       IN heap' = [heap EXCEPT
                      !.optimized_config = ApplyAll(@, deletes, 1)]
    /\ pc' = "reapplied"
    /\ UNCHANGED <<content, analysis, plan, query, answer>>

Next ==
    \/ Parse
    \/ Analyze
    \/ Recommend
    \/ \E rec \in CallerRecommendations(heap.original_config) : add_recommendation(rec)
    \/ Apply
    \/ ReapplyDeletes

Spec == Init /\ [][Next]_vars

(***************************************************************************)
(* Policies of one chain whose rules differ in source, port and target:    *)
(* parsed and analyzed.                                                    *)
(***************************************************************************)
AcceptNet ==
    [RuleLine("INPUT", "ACCEPT") EXCEPT !.s = Net(4, 1), !.p = Some("tcp"),
                                        !.dport = Port(22)]

DropSub == [DropAll EXCEPT !.s = Net(6, 2)]

DropOther == [DropAll EXCEPT !.s = Net(0, 1)]

DropHost == [DropAll EXCEPT !.s = AddrText(1)]

LogNet == [RuleLine("INPUT", "LOG") EXCEPT !.s = Net(4, 1)]

RejectUdp == [RuleLine("INPUT", "REJECT") EXCEPT !.p = Some("udp")]

Telnet ==
    [RuleLine("INPUT", "ACCEPT") EXCEPT !.s = AnyNet, !.p = Some("tcp"),
                                        !.dport = Port(23)]

Rdp ==
    [RuleLine("INPUT", "ACCEPT") EXCEPT !.s = AnyText, !.p = Some("tcp"),
                                        !.dport = Port(3389)]

Web == [RuleLine("INPUT", "ACCEPT") EXCEPT !.p = Some("tcp"), !.dport = Port(80)]

NetLines ==
    {Ssh, AcceptNet, DropSub, DropOther, DropHost, LogNet, RejectUdp, Telnet,
     Rdp, Web}

InitNet == InitWith(Texts(NetLines))

NextNet ==
    \/ Parse
    \/ Analyze

SpecNet == InitNet /\ [][NextNet]_vars

(***************************************************************************)
(* The range algebra on its own: one call of _ip_contains.                 *)
(***************************************************************************)
Addresses ==
    {None, AnyNet, AnyText, AddrText(1), Net(4, 1), Net(6, 2), Net(0, 1),
     Net(5, AddrBits), Net6(0, 0), Net6(4, 1)}

InitRange ==
    /\ content = <<>>
    /\ heap = [original_config |-> FirewallConfig, optimized_config |-> FirewallConfig]
    /\ analysis = AnalysisResult
    /\ plan = OptimizationPlan
    /\ pc = "query"
    /\ query \in [general : Addresses, specific : Addresses]
    /\ answer = NoQuery

\* A call _ip_contains(general, specific): it returns a value or raises.
CallIpContains ==
    /\ pc = "query"
    /\ LET raised == _ip_contains_raises(query.general, query.specific)
       IN answer' = [raised |-> raised,
                     value |-> IF raised THEN None
                               ELSE Some(_ip_contains(query.general, query.specific))]
    /\ pc' = "answered"
    /\ UNCHANGED <<content, heap, analysis, plan, query>>

NextRange == CallIpContains

SpecRange == InitRange /\ [][NextRange]_vars

(***************************************************************************)
(* Policies of one chain whose rules differ in ports, sources, interface   *)
(* and target, among them port ranges and an IPv6 source.                  *)
(***************************************************************************)
AcceptRange ==
    [RuleLine("INPUT", "ACCEPT") EXCEPT !.p = Some("tcp"), !.dport = PortRange(20, 25)]

DropSsh == [DropAll EXCEPT !.p = Some("tcp"), !.dport = Port(22)]

DropSix == [DropAll EXCEPT !.s = Net6(0, 0)]

LogAll == RuleLine("INPUT", "LOG")

PairLines ==
    {AcceptRange, DropSsh, DropAll, AcceptNet, DropSub, DropOther, RejectUdp,
     DropEth0, LogAll, DropSix}

InitPairs == InitWith(Texts(PairLines))

SpecPairs == InitPairs /\ [][NextNet]_vars

(***************************************************************************)
(* The analysis with the chains taken in any order: the checks of one      *)
(* chain are run on its rules and the result so far, to which they append. *)
(***************************************************************************)
\* The checks with the signatures of the rules already in the result taken
\* as seen.
SharedSeenIssues(rules, result) ==
    LET known == Concat([k \in DOMAIN result.issues |-> result.issues[k].affected_rules])
        again == {k \in DOMAIN rules :
                    \E n \in DOMAIN known : SameSignature(known[n], rules[k])}
        Flag(k, found) ==
            IF k \in again
            THEN Append(found, RuleIssue("redundant", "medium", "Redundant rule",
                                         <<rules[k], rules[k]>>))
            ELSE found
        Walk[k \in 0..Len(rules)] == IF k = 0 THEN <<>> ELSE Flag(k, Walk[k - 1])
    IN AnalyzeChain(rules) \o Walk[Len(rules)]

\* The six checks of analyze_configuration on one chain: they get the result
\* only to add issues to it.
ChainIssues(rules, result) == AnalyzeChain(rules)

StartAnalysis ==
    /\ pc = "parsed"
    /\ analysis' = AnalysisResult
    /\ query' = [done |-> {}]
    /\ pc' = "analyzing"
    /\ UNCHANGED <<content, heap, plan, answer>>

AnalyzeOneChain(c) ==
    /\ pc = "analyzing"
    /\ c \notin query.done
    /\ analysis' = [analysis EXCEPT
                       !.issues = @ \o ChainIssues(AllChains(heap.original_config)[c],
                                                   analysis)]
    /\ query' = [done |-> query.done \cup {c}]
    /\ UNCHANGED <<content, heap, plan, pc, answer>>

\* The statistics and the scores, computed once every chain is done.
Aggregate ==
    /\ pc = "analyzing"
    /\ query.done = DOMAIN AllChains(heap.original_config)
    /\ analysis' = [analysis EXCEPT
                       !.statistics = _calculate_statistics(heap.original_config),
                       !.rule_efficiency_score = _calculate_efficiency_score(analysis.issues),
                       !.security_score = _calculate_security_score(analysis.issues)]
    /\ pc' = "analyzed"
    /\ UNCHANGED <<content, heap, plan, query, answer>>

NextChains ==
    \/ Parse
    \/ StartAnalysis
    \/ \E c \in DOMAIN AllChains(heap.original_config) : AnalyzeOneChain(c)
    \/ Aggregate

SpecChains == Init /\ [][NextChains]_vars

(***************************************************************************)
(* Long policies: a rule repeated, followed by another rule repeated.      *)
(***************************************************************************)
Repeat(line, n) == [k \in 1..n |-> line]

ScoreLines == {Ssh, DropAll, AcceptOut, Web}

LongTexts ==
    {Repeat(a, n) \o Repeat(b, m) :
        a \in ScoreLines, b \in ScoreLines, n \in 0..MaxCopies, m \in 0..MaxCopies}

InitScore == InitWith(LongTexts)

SpecScore == InitScore /\ [][NextNet]_vars

(***************************************************************************)
(* Analysis of what the caller holds: a parsed policy, possibly without    *)
(* rules, or None.                                                         *)
(***************************************************************************)
\* The caller holds None in place of a policy.
PassNone ==
    /\ pc = "start"
    /\ pc' = "none"
    /\ UNCHANGED <<content, heap, analysis, plan, query, answer>>

\* analyze_configuration(None): config.tables raises AttributeError.
AnalyzeNone ==
    /\ pc = "none"
    /\ pc' = "analysis_error"
    /\ UNCHANGED <<content, heap, analysis, plan, query, answer>>

NextNone ==
    \/ Parse
    \/ Analyze
    \/ PassNone
    \/ AnalyzeNone

SpecNone == Init /\ [][NextNone]_vars

(***************************************************************************)
(* The three range predicates, each called once on a pair of                *)
(* specifications.                                                         *)
(***************************************************************************)
Ports ==
    {None, Port(22), Port(80), PortRange(20, 25), PortRange(22, 22),
     PortRange(25, 20), PortName(1), PortName(2)}

Queries ==
    [op : {"_ip_ranges_overlap"}, general : Addresses \ {None},
     specific : Addresses \ {None}]
    \cup [op : {"_ip_contains"}, general : Addresses, specific : Addresses]
    \cup [op : {"_port_contains"}, general : Ports, specific : Ports]

InitAlgebra ==
    /\ content = <<>>
    /\ heap = [original_config |-> FirewallConfig, optimized_config |-> FirewallConfig]
    /\ analysis = AnalysisResult
    /\ plan = OptimizationPlan
    /\ pc = "call"
    /\ query \in Queries
    /\ answer = NoQuery

Returned(value) == [raised |-> FALSE, value |-> Some(value)]

Raised == [raised |-> TRUE, value |-> None]

\* _ip_ranges_overlap(ip1, ip2) on two texts.
Call_ip_ranges_overlap ==
    /\ pc = "call"
    /\ query.op = "_ip_ranges_overlap"
    /\ answer' = Returned(_ip_ranges_overlap(query.general[1], query.specific[1]))
    /\ pc' = "returned"
    /\ UNCHANGED <<content, heap, analysis, plan, query>>

Call_ip_contains ==
    /\ pc = "call"
    /\ query.op = "_ip_contains"
    /\ answer' = IF _ip_contains_raises(query.general, query.specific) THEN Raised
                 ELSE Returned(_ip_contains(query.general, query.specific))
    /\ pc' = "returned"
    /\ UNCHANGED <<content, heap, analysis, plan, query>>

Call_port_contains ==
    /\ pc = "call"
    /\ query.op = "_port_contains"
    /\ answer' = Returned(_port_contains(query.general, query.specific))
    /\ pc' = "returned"
    /\ UNCHANGED <<content, heap, analysis, plan, query>>

NextAlgebra ==
    \/ Call_ip_ranges_overlap
    \/ Call_ip_contains
    \/ Call_port_contains

SpecAlgebra == InitAlgebra /\ [][NextAlgebra]_vars

(***************************************************************************)
(* The scores of a result that holds any issues: issues of one kind        *)
(* followed by issues of another kind, scored as analyze_configuration     *)
(* scores the issues its checks added.                                     *)
(***************************************************************************)
IssueTypeValues ==
    {"redundant", "conflicting", "unreachable", "inefficient_order",
     "security_risk", "overly_permissive", "missing_log"}

IssueSeverityValues == {"low", "medium", "high", "critical"}

IssueKinds ==
    {RuleIssue(t, s, "", <<>>) : t \in IssueTypeValues, s \in IssueSeverityValues}

IssueLists ==
    {Repeat(a, n) \o Repeat(b, m) :
        a \in IssueKinds, b \in IssueKinds, n \in 0..MaxCopies, m \in 0..MaxCopies}

InitIssues ==
    /\ content = <<>>
    /\ heap = [original_config |-> FirewallConfig, optimized_config |-> FirewallConfig]
    /\ analysis \in {[AnalysisResult EXCEPT !.issues = issues] : issues \in IssueLists}
    /\ plan = OptimizationPlan
    /\ pc = "scoring"
    /\ query = NoQuery
    /\ answer = NoQuery

CalculateScores ==
    /\ pc = "scoring"
    /\ analysis' = [analysis EXCEPT
                       !.rule_efficiency_score = _calculate_efficiency_score(analysis.issues),
                       !.security_score = _calculate_security_score(analysis.issues)]
    /\ pc' = "scored"
    /\ UNCHANGED <<content, heap, plan, query, answer>>

NextIssues == CalculateScores

SpecIssues == InitIssues /\ [][NextIssues]_vars

(***************************************************************************)
(* Policies whose rules differ in target, port, destination, interface,    *)
(* state and source port, taken through analysis, recommendation and the   *)
(* application of the plan.                                                *)
(***************************************************************************)
RejectAll == RuleLine("INPUT", "REJECT")

WebTo == [Web EXCEPT !.d = Net(4, 1)]

AcceptLo == [RuleLine("INPUT", "ACCEPT") EXCEPT !.i = Some("lo")]

AcceptEstablished == [RuleLine("INPUT", "ACCEPT") EXCEPT !.ctstate = Some("ESTABLISHED")]

AcceptTcp == [RuleLine("INPUT", "ACCEPT") EXCEPT !.p = Some("tcp")]

AcceptFromPort == [RuleLine("INPUT", "ACCEPT") EXCEPT !.sport = Port(53)]

PlanLines ==
    {Ssh, Web, WebTo, DropAll, RejectAll, AcceptOut, AcceptLo, AcceptEstablished,
     AcceptTcp, AcceptFromPort}

InitPlan == InitWith(Texts(PlanLines))

\* The recommendations of a type that is not applied which a caller adds:
\* they name the first rule of the policy and carry a new rule.
InformationalRecommendations(tables) ==
    {Recommendation(rec_type, CRITICAL, "Caller",
                    IF AllRules(tables) = <<>> THEN <<>> ELSE <<AllRules(tables)[1]>>,
                    <<FirewallRule("filter", "INPUT", "DROP", DefaultDropLine("INPUT"))>>)
        : rec_type \in {"split_rule", "restrict_source"}}

NextPlan ==
    \/ Parse
    \/ Analyze
    \/ Recommend
    \/ \E rec \in InformationalRecommendations(heap.original_config) :
            add_recommendation(rec)
    \/ Apply

SpecPlan == InitPlan /\ [][NextPlan]_vars

(***************************************************************************)
(* The optimisation repeated: the policy returned by                       *)
(* generate_optimized_config is analyzed and optimised again.              *)
(***************************************************************************)
RepeatLines == {Ssh, Web, DropAll, DropEth0, RejectAll, AcceptOut}

InitRepeat == InitWith(Texts(RepeatLines))

\* policy := the optimised policy
OptimizeAgain ==
    /\ pc = "applied"
    /\ heap' = [heap EXCEPT !.original_config = heap.optimized_config]
    /\ pc' = "parsed"
    /\ UNCHANGED <<content, analysis, plan, query, answer>>

NextRepeat ==
    \/ Parse
    \/ Analyze
    \/ Recommend
    \/ Apply
    \/ OptimizeAgain

Running == {"start", "parsed", "analyzed", "recommended", "applied"}

\* A call returns or raises and the caller moves on: from each running
\* position NextRepeat has a step, and each of its steps changes pc.
Returns ==
    /\ pc \in Running
    /\ pc' \in Running \cup {"parse_error", "analysis_error"}
    /\ pc' # pc

\* Every call made is one that returns.
SpecRepeat == InitRepeat /\ [][NextRepeat]_vars /\ WF_pc(Returns)

(***************************************************************************)
(* Packets, and the rules' first-match semantics the claims refer to.      *)
(***************************************************************************)
Packets ==
    [protocol : {"tcp", "udp"}, src : 0..(Pow2(AddrBits) - 1), dst : {0, 5},
     sport : {22, 80}, dport : {21, 22, 80}, in : {"eth0", "lo"},
     out : {"eth0"}, state : {"NEW", "ESTABLISHED"}]

MatchesText(field, value) == field = None \/ field = Some(value)

MatchesAddr(field, address) ==
    \/ field = None
    \/ /\ field[1].fam = 4
       /\ address \div Pow2(AddrBits - field[1].len)
            = field[1].addr \div Pow2(AddrBits - field[1].len)

MatchesPort(field, port) ==
    \/ field = None
    \/ field[1].form # "name" /\ field[1].lo <= port /\ port <= field[1].hi

Matches(rule, packet) ==
    /\ MatchesText(rule.protocol, packet.protocol)
    /\ MatchesAddr(rule.source_ip, packet.src)
    /\ MatchesAddr(rule.destination_ip, packet.dst)
    /\ MatchesPort(rule.source_port, packet.sport)
    /\ MatchesPort(rule.destination_port, packet.dport)
    /\ MatchesText(rule.interface_in, packet.in)
    /\ MatchesText(rule.interface_out, packet.out)
    /\ MatchesText(rule.state, packet.state)

IssuesOfType(issue_type) ==
    {k \in DOMAIN analysis.issues : analysis.issues[k].issue_type = issue_type}

Original == heap.original_config

Optimized == heap.optimized_config

\* C1: every rule reported as unreachable is shadowed: each packet that the
\* flagged rule (evidence[1]) matches is matched by the earlier rule reported
\* with it (evidence[0]).
C1_UnreachableIsShadowed ==
    pc = "analyzed" =>
        \A k \in IssuesOfType("unreachable") :
            \A packet \in Packets :
                Matches(analysis.issues[k].affected_rules[2], packet)
                    => Matches(analysis.issues[k].affected_rules[1], packet)

\* C2: no step after parsing changes the policy that was analyzed: Analyze,
\* Recommend and Apply leave every table, chain and rule list of the original
\* as it was, and so do later changes of the returned policy.
C2_OriginalNeverMutated ==
    [][pc # "start" => heap'.original_config = heap.original_config]_vars

C2_Witness ==
    /\ pc = "reapplied"
    /\ Optimized # Original
    /\ Original = parse_iptables_save(content).tables

\* C3: applying the delete recommendations of the plan a second time changes
\* nothing: the policy after the second pass equals the policy after the first.
C3_DeleteIdempotent ==
    [][pc = "applied" => heap'.optimized_config = heap.optimized_config]_vars

C3_Witness ==
    /\ pc = "reapplied"
    /\ Len(AllRules(Optimized)) < Len(AllRules(Original))
    /\ \E k \in DOMAIN plan.recommendations :
          /\ plan.recommendations[k].rec_type = "delete_rule"
          /\ ~Contains(AllRules(Optimized), plan.recommendations[k].affected_rules[1])

RECURSIVE IsSubsequence(_, _)
IsSubsequence(a, b) ==
    IF a = <<>> THEN TRUE
    ELSE IF b = <<>> THEN FALSE
    ELSE IF Head(a) = Head(b) THEN IsSubsequence(Tail(a), Tail(b))
    ELSE IsSubsequence(a, Tail(b))

\* The rule list of chain c of table t, empty when there is no such chain.
RulesOf(tables, t, c) ==
    IF t \notin Keys(tables) THEN <<>>
    ELSE LET chains == tables[IndexOf(tables, t)].chains
         IN IF c \notin Keys(chains) THEN <<>> ELSE chains[IndexOf(chains, c)].rules

ChainNames(tables, t) ==
    IF t \notin Keys(tables) THEN {} ELSE Keys(tables[IndexOf(tables, t)].chains)

\* The new rules the plan's add recommendations attach for chain c of table t,
\* in the order the recommendations are applied in.
NewRulesFor(t, c) ==
    LET IsAdd(rec) == rec.rec_type = "add_rule"
        IsFor(rule) == rule.table = t /\ rule.chain = c
        adds == SelectSeq(SortByPriority(plan.recommendations), IsAdd)
    IN Concat([k \in DOMAIN adds |-> SelectSeq(adds[k].new_rules, IsFor)])

NewPlaces ==
    {<<plan.recommendations[k].new_rules[n].table,
       plan.recommendations[k].new_rules[n].chain>> :
        k \in {h \in DOMAIN plan.recommendations :
                 plan.recommendations[h].rec_type = "add_rule"},
        n \in {1}}

\* C4: in the policy Apply returns, every chain is the original chain with some
\* rules removed (the others unchanged and in their order) followed by the new
\* rules of the add recommendations for it; the tables and chains are those
\* of the original and those the add recommendations name.
C4_OnlyWholeRules ==
    pc = "applied" =>
        /\ Keys(Optimized) = Keys(Original) \cup {place[1] : place \in NewPlaces}
        /\ \A t \in Keys(Optimized) :
              /\ ChainNames(Optimized, t) =
                    ChainNames(Original, t)
                    \cup {place[2] : place \in {q \in NewPlaces : q[1] = t}}
              /\ \A c \in ChainNames(Optimized, t) :
                    LET now == RulesOf(Optimized, t, c)
                        added == NewRulesFor(t, c)
                        kept == Len(now) - Len(added)
                    IN /\ kept >= 0
                       /\ SubSeq(now, kept + 1, Len(now)) = added
                       /\ IsSubsequence(SubSeq(now, 1, kept), RulesOf(Original, t, c))

C4_Witness ==
    /\ pc = "applied"
    /\ "mangle" \in Keys(Optimized) \ Keys(Original)
    /\ RulesOf(Optimized, "mangle", "FORWARD") # <<>>
    /\ \E c \in ChainNames(Original, "filter") :
          /\ NewRulesFor("filter", c) # <<>>
          /\ Len(RulesOf(Optimized, "filter", c)) >= 2
          /\ Len(RulesOf(Optimized, "filter", c))
                < Len(RulesOf(Original, "filter", c)) + 1

\* The ten fields the signature of a rule is made of.
EqualSignatureFields(a, b) ==
    /\ a.chain = b.chain /\ a.target = b.target /\ a.protocol = b.protocol
    /\ a.source_ip = b.source_ip /\ a.destination_ip = b.destination_ip
    /\ a.source_port = b.source_port /\ a.destination_port = b.destination_port
    /\ a.interface_in = b.interface_in /\ a.interface_out = b.interface_out
    /\ a.state = b.state

\* C5: in each chain, a rule gets exactly one redundant issue (severity medium)
\* if an earlier rule of the chain has the same signature and none otherwise;
\* the issue names the earliest rule with that signature and then the rule.
C5_OneRedundantPerDuplicate ==
    pc = "analyzed" =>
        LET chains == AllChains(Original)
        IN \A c \in DOMAIN chains : \A k \in DOMAIN chains[c] :
            LET rules == chains[c]
                same == {h \in 1..(k - 1) : EqualSignatureFields(rules[h], rules[k])}
                found == {n \in IssuesOfType("redundant") :
                            analysis.issues[n].affected_rules[2] = rules[k]}
            IN IF same = {} THEN found = {}
               ELSE /\ Cardinality(found) = 1
                    /\ \A n \in found :
                          /\ analysis.issues[n].severity = "medium"
                          /\ analysis.issues[n].affected_rules =
                                <<rules[CHOOSE h \in same : \A g \in same : h <= g],
                                  rules[k]>>

C5_Witness ==
    /\ pc = "analyzed"
    /\ \E a, b \in IssuesOfType("redundant") :
          /\ a # b
          /\ analysis.issues[a].affected_rules[1] = analysis.issues[b].affected_rules[1]
          /\ analysis.issues[a].affected_rules[1].line_number + 1
                = analysis.issues[a].affected_rules[2].line_number
          /\ analysis.issues[b].affected_rules[2].line_number
                = analysis.issues[a].affected_rules[2].line_number + 1

\* The pairs of line numbers of the conflicting issues of a result.
ConflictsOf(result) ==
    {<<result.issues[k].affected_rules[1].line_number,
       result.issues[k].affected_rules[2].line_number>> :
        k \in {h \in DOMAIN result.issues :
                 result.issues[h].issue_type = "conflicting"}}

Swapped(text, i, j) == [text EXCEPT ![i] = text[j], ![j] = text[i]]

\* C6: the rules of two lines of a chain get a conflicting issue if and only
\* if they get one in the policy with the two lines exchanged; each conflicting
\* issue names two rules of one chain, the rule of the earlier line first.
C6_ConflictSymmetric ==
    pc = "analyzed" =>
        /\ \A k \in IssuesOfType("conflicting") :
              LET evidence == analysis.issues[k].affected_rules
              IN /\ Len(evidence) = 2
                 /\ evidence[1].line_number < evidence[2].line_number
                 /\ evidence[1].chain = evidence[2].chain
                 /\ evidence[1].raw_rule = content[evidence[1].line_number]
                 /\ evidence[2].raw_rule = content[evidence[2].line_number]
        /\ \A i, j \in DOMAIN content :
              (/\ i < j
               /\ content[i].kind = "rule" /\ content[j].kind = "rule"
               /\ content[i].chain = content[j].chain)
              => LET exchanged ==
                        analyze_configuration(
                            parse_iptables_save(Swapped(content, i, j)).tables)
                 IN /\ <<i, j>> \in ConflictsOf(analysis)
                        <=> <<i, j>> \in ConflictsOf(exchanged)
                    /\ \A k \in DOMAIN exchanged.issues :
                          (/\ exchanged.issues[k].issue_type = "conflicting"
                           /\ exchanged.issues[k].affected_rules[1].line_number = i
                           /\ exchanged.issues[k].affected_rules[2].line_number = j)
                          => /\ exchanged.issues[k].affected_rules[1].raw_rule = content[j]
                             /\ exchanged.issues[k].affected_rules[2].raw_rule = content[i]

C6_Witness ==
    /\ pc = "analyzed"
    /\ \E k \in IssuesOfType("conflicting") :
          LET evidence == analysis.issues[k].affected_rules
          IN /\ evidence[1].target = "DROP" /\ evidence[2].target = "ACCEPT"
             /\ evidence[1].source_ip = Net(6, 2)
             /\ evidence[2].source_ip = Net(4, 1)
    /\ \E i, j \in DOMAIN content :
          /\ i < j
          /\ content[i].j = "LOG"
          /\ <<i, j>> \notin ConflictsOf(analysis)

\* The line numbers of the rules issue k names.
LinesOf(k) ==
    [n \in DOMAIN analysis.issues[k].affected_rules |->
        analysis.issues[k].affected_rules[n].line_number]

Scenario7 == content = <<Ssh, Ssh, DropAll>>

\* C7 as stated: for two identical accept rules for tcp port 22 followed by an
\* unconditional drop, there is exactly one redundant issue, for lines (1, 2),
\* no unreachable issue names line 1 or line 2, and the efficiency score is 95.
C7_ScenarioAsStated ==
    (pc = "analyzed" /\ Scenario7) =>
        /\ Cardinality(IssuesOfType("redundant")) = 1
        /\ \A k \in IssuesOfType("redundant") : LinesOf(k) = <<1, 2>>
        /\ \A k \in IssuesOfType("unreachable") :
              \A n \in DOMAIN LinesOf(k) : LinesOf(k)[n] \notin {1, 2}
        /\ analysis.rule_efficiency_score = 95

\* C7 amended: for that policy there is exactly one redundant issue, for lines
\* (1, 2), exactly one unreachable issue, also for lines (1, 2), and the
\* efficiency score is 100 - 5 - 4 = 91.
C7_ScenarioAmended ==
    (pc = "analyzed" /\ Scenario7) =>
        /\ Cardinality(IssuesOfType("redundant")) = 1
        /\ \A k \in IssuesOfType("redundant") : LinesOf(k) = <<1, 2>>
        /\ Cardinality(IssuesOfType("unreachable")) = 1
        /\ \A k \in IssuesOfType("unreachable") : LinesOf(k) = <<1, 2>>
        /\ analysis.rule_efficiency_score = 91

C7_Witness ==
    /\ pc = "analyzed"
    /\ Scenario7
    /\ IssuesOfType("redundant") # {}

\* C8: every ACCEPT rule with no source, source 0.0.0.0/0 or source any and
\* with destination port 22, 23 or 3389 has exactly one security_risk issue,
\* of severity high; the policy of the single rule
\* -A INPUT -p tcp --dport 22 -j ACCEPT has exactly one security_risk issue and
\* security score 85.
C8_AdminPortOpenToAll ==
    pc = "analyzed" =>
        /\ \A n \in DOMAIN AllRules(Original) :
              LET rule == AllRules(Original)[n]
                  found == {k \in IssuesOfType("security_risk") :
                              analysis.issues[k].affected_rules = <<rule>>}
              IN (/\ rule.target = "ACCEPT"
                  /\ rule.source_ip \in {None, Net(0, 0), AddrText(0)}
                  /\ rule.destination_port \in {Port(22), Port(23), Port(3389)})
                 => /\ Cardinality(found) = 1
                    /\ \A k \in found : analysis.issues[k].severity = "high"
        /\ content = <<Ssh>> =>
              /\ Cardinality(IssuesOfType("security_risk")) = 1
              /\ analysis.security_score = 85

C8_Witness ==
    /\ pc = "analyzed"
    /\ Cardinality(IssuesOfType("security_risk")) = 3
    /\ {analysis.issues[k].affected_rules[1].destination_port :
            k \in IssuesOfType("security_risk")} = {Port(22), Port(23), Port(3389)}
    /\ {analysis.issues[k].affected_rules[1].source_ip :
            k \in IssuesOfType("security_risk")} = {None, Net(0, 0), AddrText(0)}
    /\ analysis.security_score = 55

\* A DROP with no matching restriction at all.
UnconditionalDrop(rule) ==
    /\ rule.target = "DROP"
    /\ rule.protocol = None
    /\ rule.source_ip = None /\ rule.destination_ip = None
    /\ rule.source_port = None /\ rule.destination_port = None
    /\ rule.interface_in = None /\ rule.interface_out = None
    /\ rule.state = None

\* C9: for each non-empty INPUT, FORWARD or OUTPUT chain of the filter table
\* the plan holds exactly one add_rule recommendation, of priority medium and
\* proposing -A <chain> -j DROP, if the last rule of the chain is not an
\* unconditional drop, and no add_rule recommendation for the chain otherwise.
C9_DefaultDropProposed ==
    pc = "recommended" =>
        \A c \in {"INPUT", "FORWARD", "OUTPUT"} :
            LET rules == RulesOf(Original, "filter", c)
                adds == {k \in DOMAIN plan.recommendations :
                           /\ plan.recommendations[k].rec_type = "add_rule"
                           /\ \E n \in DOMAIN plan.recommendations[k].new_rules :
                                 plan.recommendations[k].new_rules[n].chain = c}
            IN rules # <<>> =>
                  IF UnconditionalDrop(rules[Len(rules)])
                  THEN adds = {}
                  ELSE /\ Cardinality(adds) = 1
                       /\ \A k \in adds :
                             /\ plan.recommendations[k].priority = MEDIUM
                             /\ Len(plan.recommendations[k].new_rules) = 1
                             /\ plan.recommendations[k].new_rules[1].raw_rule
                                   = RuleLine(c, "DROP")
                             /\ UnconditionalDrop(plan.recommendations[k].new_rules[1])

\* C10: _ip_contains(general, specific) returns True for every specific, None
\* included, when general is None, and returns False when specific is None and
\* general is not.
C10_AbsentAddresses ==
    pc = "answered" =>
        /\ query.general = None => answer.value = Some(TRUE)
        /\ (query.specific = None /\ query.general # None)
              => answer.value = Some(FALSE)

C10_Witness ==
    /\ pc = "answered"
    /\ query.general = None
    /\ query.specific = None
    /\ answer.value = Some(TRUE)

\* C12: analyzing a policy without rules (no tables, or only empty chains),
\* or None in place of a policy, raises nothing and gives a result with no
\* issues and both scores 100.
C12_EmptyOrNullPolicy ==
    [][(\/ pc = "none"
        \/ pc = "parsed" /\ AllRules(heap.original_config) = <<>>)
       => /\ pc' = "analyzed"
          /\ analysis'.issues = <<>>
          /\ analysis'.rule_efficiency_score = 100
          /\ analysis'.security_score = 100]_vars

\* A port specification that can be read as an interval.
IsInterval(port) == port # None /\ port[1].form \in {"single", "range"}

\* C11: on two port specifications that are intervals _port_contains returns
\* True exactly when general.start <= specific.start and specific.end <=
\* general.end; it returns True for every specific when general is None; and
\* it returns True for an interval and itself.
C11_PortContainment ==
    (pc = "returned" /\ query.op = "_port_contains") =>
        /\ query.general = None => answer = Returned(TRUE)
        /\ (IsInterval(query.general) /\ IsInterval(query.specific))
              => answer = Returned(/\ query.general[1].lo <= query.specific[1].lo
                                   /\ query.specific[1].hi <= query.general[1].hi)
        /\ (IsInterval(query.general) /\ query.specific = query.general)
              => answer = Returned(TRUE)

C11_Witness ==
    /\ pc = "returned"
    /\ query.op = "_port_contains"
    /\ query.general = PortRange(20, 25)
    /\ query.specific = Port(22)
    /\ answer = Returned(TRUE)

\* An address text ipaddress.ip_network cannot read.
Unreadable(address) == address # None /\ address[1].fam = 0

\* C13: none of the three range predicates raises, each returns a boolean;
\* _ip_ranges_overlap returns True when either text is unreadable, and
\* _ip_contains and _port_contains on unreadable input return whether the two
\* texts are equal.
C13_RangePredicatesNeverRaise ==
    pc = "returned" =>
        /\ ~answer.raised
        /\ answer.value \in {Some(TRUE), Some(FALSE)}
        /\ (/\ query.op = "_ip_ranges_overlap"
            /\ (Unreadable(query.general) \/ Unreadable(query.specific)))
              => answer = Returned(TRUE)
        /\ (/\ query.op = "_ip_contains"
            /\ query.general # None /\ query.specific # None
            /\ (Unreadable(query.general) \/ Unreadable(query.specific)))
              => answer = Returned(query.general = query.specific)
        /\ (/\ query.op = "_port_contains"
            /\ query.general # None /\ query.specific # None
            /\ ~(IsInterval(query.general) /\ IsInterval(query.specific)))
              => answer = Returned(query.general = query.specific)

\* C14: both scores of a result lie in 0..100, however many issues were found.
C14_ScoresInRange ==
    pc = "analyzed" =>
        /\ 0 <= analysis.rule_efficiency_score
        /\ analysis.rule_efficiency_score <= 100
        /\ 0 <= analysis.security_score
        /\ analysis.security_score <= 100

C14_Witness ==
    /\ pc = "analyzed"
    /\ 5 * Cardinality(IssuesOfType("redundant"))
          + 4 * Cardinality(IssuesOfType("unreachable")) > 100
    /\ 15 * Cardinality(IssuesOfType("security_risk")) > 100
    /\ analysis.rule_efficiency_score = 0
    /\ analysis.security_score = 0

\* The place of a recommendation in the order of generation: the handlers in
\* the order generate_recommendations calls them, by the title they give.
Titles ==
    <<"Remove redundant rule", "Resolve conflicting rules",
      "Reorder rules for better performance", "Remove unreachable rule",
      "Restrict access to administrative port", "Add logging to DROP rule",
      "Add restrictions to overly permissive rule",
      "Consider merging similar rules", "Add explicit default DROP policy">>

IssueTypes ==
    <<"redundant", "conflicting", "inefficient_order", "unreachable",
      "security_risk", "missing_log", "overly_permissive">>

Rank(rec) == CHOOSE n \in DOMAIN Titles : Titles[n] = rec.title

Last(seq) == seq[Len(seq)]

\* The position in the result of the issue a recommendation was made from,
\* for the default-drop recommendations the position of their chain, 0 for
\* a merge.
IssueIndex(rec) ==
    IF Rank(rec) = 9
    THEN CHOOSE n \in DOMAIN StandardChains : StandardChains[n] = rec.new_rules[1].chain
    ELSE IF Rank(rec) = 8 THEN 0
    ELSE CHOOSE k \in DOMAIN analysis.issues :
            /\ analysis.issues[k].issue_type = IssueTypes[Rank(rec)]
            /\ Last(analysis.issues[k].affected_rules) = Last(rec.affected_rules)
            /\ Len(rec.affected_rules) = 2
                  => analysis.issues[k].affected_rules = rec.affected_rules

\* C15: in the plan Recommend returns, priorities never increase along the
\* list, and of two recommendations of equal priority the one generated first
\* (by handler, then by issue) comes first.
C15_PlanOrder ==
    pc = "recommended" =>
        \A a, b \in DOMAIN plan.recommendations :
            a < b =>
                LET first == plan.recommendations[a]
                    second == plan.recommendations[b]
                IN /\ first.priority >= second.priority
                   /\ first.priority = second.priority =>
                         /\ Rank(first) <= Rank(second)
                         /\ Rank(first) = Rank(second)
                               => IssueIndex(first) < IssueIndex(second)

C15_Witness ==
    /\ pc = "recommended"
    /\ \E a, b, c \in DOMAIN plan.recommendations :
          /\ a < b /\ b < c
          /\ plan.recommendations[a].priority = HIGH
          /\ plan.recommendations[b].priority = MEDIUM
          /\ plan.recommendations[c].priority = MEDIUM
          /\ Rank(plan.recommendations[a]) > Rank(plan.recommendations[b])
          /\ Rank(plan.recommendations[b]) = Rank(plan.recommendations[c])
    /\ \E d \in DOMAIN plan.recommendations : plan.recommendations[d].priority = LOW

Count(seq, x) == Cardinality({k \in DOMAIN seq : seq[k] = x})

SameMultiset(a, b) ==
    /\ Len(a) = Len(b)
    /\ \A k \in DOMAIN a : Count(a, a[k]) = Count(b, a[k])

\* The issues of a result that name a rule of the given rule sequence last.
IssuesAbout(issues, rules) ==
    LET About(issue) ==
            \E k \in DOMAIN rules : Last(issue.affected_rules) = rules[k]
    IN SelectSeq(issues, About)

\* The policy made of one chain alone.
Alone(rules) ==
    <<[name |-> rules[1].table,
       chains |-> <<[name |-> rules[1].chain, rules |-> rules]>>]>>

\* The conflicting issues found when each pair of rules of a chain is
\* analyzed on its own, as a chain of two rules.
PairwiseConflicts(rules) ==
    LET OfPair(i, j) ==
            LET IsConflict(issue) == issue.issue_type = "conflicting"
            IN IF i < j
               THEN SelectSeq(analyze_configuration(Alone(<<rules[i], rules[j]>>)).issues,
                              IsConflict)
               ELSE <<>>
    IN Concat([i \in DOMAIN rules |-> Concat([j \in DOMAIN rules |-> OfPair(i, j)])])

\* C16: whatever the order in which the chains were analyzed, the issues are,
\* as a multiset, those of the analysis in the order of the policy, and the
\* scores are the same; the issues of each chain are those of the analysis of
\* that chain alone; and the conflicting issues of a chain are those of its
\* pairs of rules analyzed one pair at a time.
C16_ChainsIndependent ==
    pc = "analyzed" =>
        LET whole == analyze_configuration(Original)
            chains == AllChains(Original)
        IN /\ SameMultiset(analysis.issues, whole.issues)
           /\ analysis.rule_efficiency_score = whole.rule_efficiency_score
           /\ analysis.security_score = whole.security_score
           /\ \A c \in DOMAIN chains :
                 chains[c] # <<>> =>
                    /\ IssuesAbout(analysis.issues, chains[c])
                          = analyze_configuration(Alone(chains[c])).issues
                    /\ LET IsConflict(issue) == issue.issue_type = "conflicting"
                       IN SameMultiset(
                              SelectSeq(IssuesAbout(analysis.issues, chains[c]), IsConflict),
                              PairwiseConflicts(chains[c]))

C16_Witness ==
    /\ pc = "analyzed"
    /\ analysis.issues # analyze_configuration(Original).issues
    /\ \E a, b \in DOMAIN analysis.issues :
          /\ a < b
          /\ analysis.issues[a].affected_rules[1].table = "nat"
          /\ analysis.issues[b].affected_rules[1].table = "filter"
          /\ analysis.issues[a].affected_rules[1].chain
                = analysis.issues[b].affected_rules[1].chain

\* Two address specifications share an address; two texts that are not
\* networks are compared as texts.
AddressesMeet(a, b) ==
    \/ a = None
    \/ b = None
    \/ IF a[1].fam = 0 \/ b[1].fam = 0 THEN a = b
       ELSE /\ a[1].fam = b[1].fam
            /\ \E address \in 0..(Pow2(AddrBits) - 1) :
                  /\ address \div Pow2(AddrBits - a[1].len)
                        = a[1].addr \div Pow2(AddrBits - a[1].len)
                  /\ address \div Pow2(AddrBits - b[1].len)
                        = b[1].addr \div Pow2(AddrBits - b[1].len)

\* Two port specifications, read as inclusive intervals, share a port.
IntervalsMeet(a, b) ==
    \/ a = None
    \/ b = None
    \/ IF IsInterval(a) /\ IsInterval(b)
       THEN a[1].lo <= b[1].hi /\ b[1].lo <= a[1].hi
       ELSE a = b

TextsMeet(a, b) == a = None \/ b = None \/ a = b

\* C17: two rules at positions i < j of a chain get a conflicting issue if
\* and only if their targets differ, both are ACCEPT, DROP or REJECT, and
\* every matching field is absent on a side or overlaps (addresses as sets,
\* ports as intervals, the others by equality); there is one issue for such
\* a pair, of severity high if a target is DROP and medium otherwise.
C17_ConflictIffOverlap ==
    pc = "analyzed" =>
        LET chains == AllChains(Original)
        IN \A c \in DOMAIN chains : \A i, j \in DOMAIN chains[c] :
            i < j =>
                LET first == chains[c][i]
                    second == chains[c][j]
                    found == {k \in IssuesOfType("conflicting") :
                                analysis.issues[k].affected_rules = <<first, second>>}
                    conflict ==
                        /\ first.target # second.target
                        /\ first.target \in {"ACCEPT", "DROP", "REJECT"}
                        /\ second.target \in {"ACCEPT", "DROP", "REJECT"}
                        /\ TextsMeet(first.protocol, second.protocol)
                        /\ AddressesMeet(first.source_ip, second.source_ip)
                        /\ AddressesMeet(first.destination_ip, second.destination_ip)
                        /\ IntervalsMeet(first.source_port, second.source_port)
                        /\ IntervalsMeet(first.destination_port, second.destination_port)
                        /\ TextsMeet(first.interface_in, second.interface_in)
                        /\ TextsMeet(first.interface_out, second.interface_out)
                IN IF conflict
                   THEN /\ Cardinality(found) = 1
                        /\ \A k \in found :
                              analysis.issues[k].severity =
                                 IF "DROP" \in {first.target, second.target}
                                 THEN "high" ELSE "medium"
                   ELSE found = {}

\* An address specification holds every address of another one: absent
\* holds everything, an absent one is held by absent only.
AddressWithin(general, specific) ==
    \/ general = None
    \/ /\ specific # None
       /\ IF general[1].fam = 0 \/ specific[1].fam = 0 THEN general = specific
          ELSE /\ general[1].fam = specific[1].fam
               /\ general[1].len <= specific[1].len
               /\ specific[1].addr \div Pow2(AddrBits - general[1].len)
                     = general[1].addr \div Pow2(AddrBits - general[1].len)

PortsWithin(general, specific) ==
    \/ general = None
    \/ /\ specific # None
       /\ IF IsInterval(general) /\ IsInterval(specific)
          THEN general[1].lo <= specific[1].lo /\ specific[1].hi <= general[1].hi
          ELSE general = specific

TextWithin(general, specific) == general = None \/ general = specific

\* The positions below j whose rule is terminal and completely covers rule j.
Covering(rules, j) ==
    {i \in 1..(j - 1) :
        /\ rules[i].target \in {"ACCEPT", "DROP", "REJECT"}
        /\ TextWithin(rules[i].protocol, rules[j].protocol)
        /\ AddressWithin(rules[i].source_ip, rules[j].source_ip)
        /\ AddressWithin(rules[i].destination_ip, rules[j].destination_ip)
        /\ PortsWithin(rules[i].source_port, rules[j].source_port)
        /\ PortsWithin(rules[i].destination_port, rules[j].destination_port)
        /\ TextWithin(rules[i].interface_in, rules[j].interface_in)
        /\ TextWithin(rules[i].interface_out, rules[j].interface_out)}

UnreachableAbout(rule) ==
    {k \in IssuesOfType("unreachable") : Last(analysis.issues[k].affected_rules) = rule}

C19_NearestPredecessor ==
    pc = "analyzed" =>
        LET chains == AllChains(Original)
        IN \A c \in DOMAIN chains : \A j \in DOMAIN chains[c] :
            \A k \in UnreachableAbout(chains[c][j]) :
                \E i \in Covering(chains[c], j) :
                    /\ \A h \in Covering(chains[c], j) : h <= i
                    /\ analysis.issues[k].affected_rules[1] = chains[c][i]

\* C19 amended: the unreachable issue of a rule R names the first covering
\* predecessor in chain order, the covering terminal rule with the lowest
\* position.
C19_FirstPredecessor ==
    pc = "analyzed" =>
        LET chains == AllChains(Original)
        IN \A c \in DOMAIN chains : \A j \in DOMAIN chains[c] :
            \A k \in UnreachableAbout(chains[c][j]) :
                \E i \in Covering(chains[c], j) :
                    /\ \A h \in Covering(chains[c], j) : i <= h
                    /\ analysis.issues[k].affected_rules[1] = chains[c][i]

\* An analyzed chain with a reported rule that two different earlier
\* terminal rules cover.
C19_Witness ==
    /\ pc = "analyzed"
    /\ \E c \in DOMAIN AllChains(Original) : \E j \in DOMAIN AllChains(Original)[c] :
          /\ Cardinality(Covering(AllChains(Original)[c], j)) >= 2
          /\ UnreachableAbout(AllChains(Original)[c][j]) # {}

\* The number of fields among protocol, source, destination, source port
\* and destination port that a rule restricts.
RestrictionCount(rule) ==
    (IF rule.protocol = None THEN 0 ELSE 1)
    + (IF rule.source_ip = None THEN 0 ELSE 1)
    + (IF rule.destination_ip = None THEN 0 ELSE 1)
    + (IF rule.source_port = None THEN 0 ELSE 1)
    + (IF rule.destination_port = None THEN 0 ELSE 1)

OrderIssues(earlier, rule) ==
    {k \in IssuesOfType("inefficient_order") :
        analysis.issues[k].affected_rules = <<earlier, rule>>}

\* C20: for every pair of rules E before R in one chain there is an
\* inefficient-order issue with evidence (E, R) if and only if E restricts
\* strictly fewer fields than R and their targets differ; such a pair gets
\* exactly one issue, of severity medium.
C20_InefficientOrder ==
    pc = "analyzed" =>
        LET chains == AllChains(Original)
        IN \A c \in DOMAIN chains : \A i, j \in DOMAIN chains[c] :
            i < j =>
                LET found == OrderIssues(chains[c][i], chains[c][j])
                IN IF /\ RestrictionCount(chains[c][i]) < RestrictionCount(chains[c][j])
                      /\ chains[c][i].target # chains[c][j].target
                   THEN /\ Cardinality(found) = 1
                        /\ \A k \in found : analysis.issues[k].severity = "medium"
                   ELSE found = {}

\* An analyzed chain with a reported pair and with an unreported pair of
\* equally restricted rules of different targets.
C20_Witness ==
    /\ pc = "analyzed"
    /\ IssuesOfType("inefficient_order") # {}
    /\ \E c \in DOMAIN AllChains(Original) : \E i, j \in DOMAIN AllChains(Original)[c] :
          LET rules == AllChains(Original)[c]
          IN /\ i < j
             /\ rules[i].target # rules[j].target
             /\ RestrictionCount(rules[i]) = RestrictionCount(rules[j])
             /\ OrderIssues(rules[i], rules[j]) = {}

NumberOf(issue_type) == Cardinality(IssuesOfType(issue_type))

NumberOfRisks(severity) ==
    Cardinality({k \in IssuesOfType("security_risk") :
                    analysis.issues[k].severity = severity})

AtLeastZero(n) == IF n < 0 THEN 0 ELSE n

\* C21: the efficiency score of a result is max(0, 100 - 5 * redundant issues
\* - 3 * inefficient-order issues - 4 * unreachable issues); issues of the
\* other types do not change it.
C21_EfficiencyScore ==
    pc \in {"scored", "analyzed"} =>
        analysis.rule_efficiency_score =
            AtLeastZero(100 - 5 * NumberOf("redundant")
                            - 3 * NumberOf("inefficient_order")
                            - 4 * NumberOf("unreachable"))

\* An analyzed policy with issues of the three penalised types and of types
\* without a penalty, and a score strictly between 0 and 100.
C21_Witness ==
    /\ pc = "analyzed"
    /\ NumberOf("redundant") > 0
    /\ NumberOf("inefficient_order") > 0
    /\ NumberOf("unreachable") > 0
    /\ NumberOf("conflicting") > 0
    /\ NumberOf("missing_log") > 0
    /\ analysis.rule_efficiency_score > 0
    /\ analysis.rule_efficiency_score < 100

\* C22: the security score of a result is max(0, 100 - 20 * critical
\* security-risk issues - 15 * high ones - 10 * medium ones - 8 *
\* overly-permissive issues); missing-log issues and the issues of every
\* other type do not change it.
C22_SecurityScore ==
    pc \in {"scored", "analyzed"} =>
        analysis.security_score =
            AtLeastZero(100 - 20 * NumberOfRisks("critical")
                            - 15 * NumberOfRisks("high")
                            - 10 * NumberOfRisks("medium")
                            - 8 * NumberOf("overly_permissive"))

\* A scored result with critical and high security risks whose penalties
\* leave a score strictly above 0.
C22_Witness ==
    /\ pc = "scored"
    /\ NumberOfRisks("critical") > 0
    /\ NumberOfRisks("high") > 0
    /\ analysis.security_score
          = 100 - 20 * NumberOfRisks("critical") - 15 * NumberOfRisks("high")
    /\ analysis.security_score > 0

\* The recommendations of the plan made from issues: all but the merge
\* proposals and the default-drop proposals, as type, priority and rules.
IssueDerived ==
    LET FromIssue(rec) == rec.rec_type \notin {"merge_rules", "add_rule"}
        derived == SelectSeq(plan.recommendations, FromIssue)
    IN [k \in DOMAIN derived |->
            <<derived[k].rec_type, derived[k].priority, derived[k].affected_rules>>]

\* The recommendation the mapping gives for an issue.
MappedFrom(issue) ==
    LET rules == issue.affected_rules
    IN CASE issue.issue_type = "redundant" -> <<"delete_rule", MEDIUM, <<rules[2]>> >>
         [] issue.issue_type = "conflicting" ->
                <<"modify_rule",
                  IF "DROP" \in {rules[1].target, rules[2].target} THEN HIGH ELSE MEDIUM,
                  rules>>
         [] issue.issue_type = "inefficient_order" -> <<"reorder_rules", MEDIUM, rules>>
         [] issue.issue_type = "unreachable" -> <<"delete_rule", MEDIUM, <<rules[2]>> >>
         [] issue.issue_type = "security_risk" -> <<"restrict_source", HIGH, rules>>
         [] issue.issue_type = "missing_log" -> <<"add_logging", LOW, rules>>
         [] issue.issue_type = "overly_permissive" -> <<"modify_rule", HIGH, rules>>

\* C23: the plan holds exactly one issue-derived recommendation per issue of
\* the analysis, of the type and priority fixed by the issue's type: a
\* redundant or unreachable issue gives a delete-rule for the later rule
\* only, a conflict a modify-rule for both (high if a target is DROP, else
\* medium), an ordering issue a reorder-rules for both, a security risk a
\* restrict-source (high), a missing log an add-logging (low), an overly
\* permissive rule a modify-rule (high).
C23_OneRecommendationPerIssue ==
    pc = "recommended" =>
        SameMultiset(IssueDerived,
                     [k \in DOMAIN analysis.issues |-> MappedFrom(analysis.issues[k])])

\* A plan made from an analysis with an unreachable issue, a conflict without
\* DROP and a conflict with DROP.
C23_Witness ==
    /\ pc = "recommended"
    /\ IssuesOfType("unreachable") # {}
    /\ \E k \in IssuesOfType("conflicting") : analysis.issues[k].severity = "medium"
    /\ \E k \in IssuesOfType("conflicting") : analysis.issues[k].severity = "high"

MergeProposals ==
    {k \in DOMAIN plan.recommendations : plan.recommendations[k].rec_type = "merge_rules"}

\* C24: every merge-rules recommendation has priority low and names at least
\* two rules that have the same protocol, target, source, in-interface and
\* out-interface, pairwise distinct destination ports, and no difference in
\* any other field (destination, source port, state, chain, table).
C24_MergeGroupsDifferInPortOnly ==
    pc = "recommended" =>
        \A k \in MergeProposals :
            LET group == plan.recommendations[k].affected_rules
            IN /\ plan.recommendations[k].priority = LOW
               /\ Len(group) >= 2
               /\ \A a, b \in DOMAIN group :
                     a # b =>
                        /\ \A field \in {"protocol", "target", "source_ip",
                                         "interface_in", "interface_out"} :
                              group[a][field] = group[b][field]
                        /\ group[a].destination_port # group[b].destination_port
                        /\ \A field \in {"destination_ip", "source_port", "state",
                                         "chain", "table"} :
                              group[a][field] = group[b][field]

RecommendationsOfType(types) ==
    {k \in DOMAIN plan.recommendations : plan.recommendations[k].rec_type \in types}

\* The number of rules the delete-rule recommendations name, a rule named by
\* two recommendations counted twice.
RECURSIVE NamedByDeletes(_)
NamedByDeletes(k) ==
    IF k = 0 THEN 0
    ELSE NamedByDeletes(k - 1)
         + (IF plan.recommendations[k].rec_type = "delete_rule"
            THEN Len(plan.recommendations[k].affected_rules) ELSE 0)

\* A percentage kept as <<numerator, denominator>> equals n / d * 100.
IsPercentageOf(fraction, n, d) == fraction[1] * d = 100 * n * fraction[2]

Acts(rec) == rec.rec_type \in {"delete_rule", "add_rule"}

\* C26: Apply acts on delete-rule and add-rule recommendations only: the
\* policy it returns for a plan without any of them equals the original, and
\* for any plan it is the policy that the plan's delete-rule and add-rule
\* recommendations alone give.
C26_OnlyDeleteAndAddApplied ==
    pc = "applied" =>
        /\ (\A k \in DOMAIN plan.recommendations : ~Acts(plan.recommendations[k]))
              => Optimized = Original
        /\ Optimized
              = ApplyAll(Original, SelectSeq(SortByPriority(plan.recommendations), Acts), 1)

\* An applied plan of modify-rule, restrict-source, add-logging and
\* split-rule recommendations only, one of them naming a rule of the policy
\* and carrying a new rule.
C26_Witness ==
    /\ pc = "applied"
    /\ \A k \in DOMAIN plan.recommendations : ~Acts(plan.recommendations[k])
    /\ \A t \in {"modify_rule", "restrict_source", "add_logging", "split_rule"} :
          RecommendationsOfType({t}) # {}
    /\ \E k \in RecommendationsOfType({"split_rule"}) :
          /\ plan.recommendations[k].affected_rules # <<>>
          /\ plan.recommendations[k].new_rules # <<>>
    /\ Optimized = Original
    /\ AllRules(Original) # <<>>

PermissiveAbout(rule) ==
    {k \in IssuesOfType("overly_permissive") : analysis.issues[k].affected_rules = <<rule>>}

\* C27: a rule gets an overly-permissive issue if and only if its target is
\* ACCEPT and it has no protocol, no source, no destination and no
\* destination port, whatever its interfaces, source port and state; such a
\* rule gets exactly one such issue, of severity high.
C27_OverlyPermissive ==
    pc = "analyzed" =>
        \A k \in DOMAIN AllRules(Original) :
            LET rule == AllRules(Original)[k]
            IN IF /\ rule.target = "ACCEPT"
                  /\ rule.protocol = None
                  /\ rule.source_ip = None
                  /\ rule.destination_ip = None
                  /\ rule.destination_port = None
               THEN /\ Cardinality(PermissiveAbout(rule)) = 1
                    /\ \A n \in PermissiveAbout(rule) : analysis.issues[n].severity = "high"
               ELSE PermissiveAbout(rule) = {}

\* An analyzed policy where a rule bound to an interface and a rule bound to
\* a source port or a state are flagged, and an ACCEPT rule with a protocol
\* is not.
C27_Witness ==
    /\ pc = "analyzed"
    /\ \E k \in IssuesOfType("overly_permissive") :
          analysis.issues[k].affected_rules[1].interface_in # None
    /\ \E k \in IssuesOfType("overly_permissive") :
          \/ analysis.issues[k].affected_rules[1].source_port # None
          \/ analysis.issues[k].affected_rules[1].state # None
    /\ \E k \in DOMAIN AllRules(Original) :
          /\ AllRules(Original)[k].target = "ACCEPT"
          /\ AllRules(Original)[k].protocol # None
          /\ PermissiveAbout(AllRules(Original)[k]) = {}

\* The rules of the original policy that the applied policy no longer holds.
RemovedByApply ==
    {k \in DOMAIN AllRules(Original) :
        \A n \in DOMAIN AllRules(Optimized) : AllRules(Optimized)[n] # AllRules(Original)[k]}

\* C28: once the plan is applied, the savings' count of removable rules is
\* the number of rules Apply removed from the policy; it does not exceed the
\* number of rules of the policy, and the performance improvement does not
\* exceed 100 percent.
C28_SavingsMatchRemovedRules ==
    pc = "applied" =>
        /\ plan.estimated_savings.rules_reduced = Cardinality(RemovedByApply)
        /\ plan.estimated_savings.rules_reduced <= Len(AllRules(Original))
        /\ plan.estimated_savings.performance_improvement[1]
              <= 100 * plan.estimated_savings.performance_improvement[2]

\* C29: once the plan made for a policy is applied to it, every non-empty
\* INPUT, FORWARD and OUTPUT chain of the filter table of the resulting
\* policy ends with an unconditional DROP rule.
C29_ChainsEndWithDrop ==
    (/\ pc = "applied"
     /\ \A k \in DOMAIN plan.recommendations : plan.recommendations[k].title # "Caller")
        => \A c \in {"INPUT", "FORWARD", "OUTPUT"} :
              LET rules == RulesOf(Optimized, "filter", c)
              IN rules # <<>> => UnconditionalDrop(rules[Len(rules)])

\* C30: the optimisation step repeated from any policy reaches a policy that
\* one more step leaves unchanged.
C30_ReachesFixpoint ==
    (pc = "parsed") ~> (pc = "applied" /\ Optimized = Original)

====
